---- MODULE Spec2Model ----
(***************************************************************************)
(* State-machine model of the hex editor component (src/src/main.rs):      *)
(* the HexEditor struct, its create/rendered hooks and one action per      *)
(* Msg variant handled by HexEditor::update.                               *)
(*                                                                         *)
(* Conventions                                                             *)
(*   - a Rust String is a sequence of Unicode code points (naturals);      *)
(*     a Vec<u8> is a sequence of naturals in 0..255;                      *)
(*   - an Option<T> is a sequence of length 0 (None) or 1 (Some(x));       *)
(*   - Rust indices are zero-based, TLA+ sequences one-based: the model    *)
(*     keeps the zero-based offsets of the source in every stored value;   *)
(*   - pixel quantities (f64 in the source) are kept in tenths of a pixel  *)
(*     so that ROW_HEIGHT = 29.6 is the integer 296.                       *)
(***************************************************************************)
EXTENDS Integers, Sequences, FiniteSets, TLC

(***************************************************************************)
(* Program constants.                                                      *)
(***************************************************************************)
BYTES_PER_ROW == 16
ROW_HEIGHT_TENTHS == 296
OVERSCAN_ROWS == 10
INITIAL_CONTAINER_HEIGHT == 500

NO_FILE_LOADED == "no file loaded"
OCTET_STREAM == "application/octet-stream"

(***************************************************************************)
(* Bounds of the model.                                                    *)
(***************************************************************************)
MaxLen == 3          \* longest file read into the buffer
MaxPending == 1      \* file reads in flight at once
MaxRacing == 2       \* file reads in flight at once where the reads race (SpecRace)

(***************************************************************************)
(* Inputs the environment can supply.                                      *)
(***************************************************************************)
\* bytes a file on disk may contain: 0x41 ('A') and 0xFF
FileBytes == {65, 255}

RECURSIVE SeqsUpTo(_, _)
SeqsUpTo(S, n) ==
    IF n = 0 THEN {<<>>}
    ELSE LET shorter == SeqsUpTo(S, n - 1)
         IN shorter \cup {Append(s, x) : s \in {t \in shorter : Len(t) = n - 1}, x \in S}

FileContents == SeqsUpTo(FileBytes, MaxLen)

FileNames == {"a.bin"}

\* names of the files picked where the reads race
RaceNames == {"a.bin", "b.bin"}

\* what a failed read reports (e.to_string())
ReadErrors == {"NotReadableError"}
NO_FILE_SELECTED == "No file selected."

\* texts typed in the search box:
\*   ""  "A"  "AA"  "4 1"  "4G"
\* ("A" is an odd-length hex text, "AA" the hex byte 0xAA, "4 1" the hex byte 0x41)
SearchTerms == { <<>>, <<65>>, <<65, 65>>, <<52, 32, 49>>, <<52, 71>> }

\* texts committed in a byte cell:
\*   ""  "ZZ"  "100"  "ff"  "FF"  "+FF"  "41"
CellTexts ==
    { <<>>, <<90, 90>>, <<49, 48, 48>>, <<102, 102>>, <<70, 70>>, <<43, 70, 70>>,
      <<52, 49>> }

\* indices an UpdateByte message may carry (MaxLen is past the end of every buffer)
Indices == 0 .. MaxLen

SearchModes == {"Hex", "Ascii"}

\* values element.scrollTop may report, in pixels (the files of FileContents
\* fill less than one row, so the container cannot be scrolled)
ScrollTops == {0}

\* values element.clientHeight may report on the first render, in pixels
ClientHeights == {400}

(***************************************************************************)
(* Inputs for the rendering of long files (SpecView).                      *)
(***************************************************************************)
\* a file of n bytes: 'A' at every hundredth offset and at the last one, zero
\* elsewhere
ViewFile(n) == [i \in 1 .. n |-> IF (i - 1) % 100 = 0 \/ i = n THEN 65 ELSE 0]

\* files of 1, 2, 10 and 30 rows (the last row of the longest holds 6 bytes)
ViewContents == {ViewFile(1), ViewFile(17), ViewFile(160), ViewFile(470)}

\* the text searched there: "A"
ViewTerms == { <<65>> }

\* values element.scrollTop may report, in pixels: the top, inside the first
\* row, the second and third rows, the sixth row, rows 20, 23 and 56
ViewScrollTops == {0, 29, 30, 60, 148, 600, 700, 1660}

\* values element.clientHeight may report on the first render, in pixels
ViewHeights == {0, 30, 400}

VARIABLES
    file_name,            \* String
    file_data,            \* Vec<u8>
    error,                \* Option<String>
    scroll_top,           \* f64, tenths of a pixel
    container_height,     \* f64, pixels (always integral: set from an i32)
    search_term,          \* String
    search_mode,          \* SearchMode: "Hex" | "Ascii"
    search_bytes,         \* Vec<u8>
    search_results,       \* Vec<usize>
    current_match_index,  \* Option<usize>
    search_status,        \* String
    mounted,              \* the first render has happened (scroll_container_ref is bound)
    element_scroll_top,   \* scrollTop last written to the scroll container, pixels
    pending,              \* file reads in flight: their file names, oldest first
    settled,              \* the reads that resolved in the messages handled last, with
                          \* no other message between them: for each its file name,
                          \* the message it resolved to and the number of older reads
                          \* then still in flight
    last_msg,             \* variant of the message handled last ("create" before any)
    should_render,        \* what update returned for it
    just_loaded,          \* Option<(name, bytes) of the last FileLoaded>, None once a
                          \* message other than SaveFile has been handled after it
    download              \* Option<blob that call handed to the browser>

editor == <<file_name, file_data, error, scroll_top, container_height, search_term,
            search_mode, search_bytes, search_results, current_match_index,
            search_status>>

vars == <<file_name, file_data, error, scroll_top, container_height, search_term,
          search_mode, search_bytes, search_results, current_match_index,
          search_status, mounted, element_scroll_top, pending, settled, last_msg,
          should_render, just_loaded, download>>

None == <<>>
Some(x) == <<x>>

(***************************************************************************)
(* Library functions the handlers call.                                    *)
(***************************************************************************)
RECURSIVE Flatten(_)
Flatten(ss) == IF ss = <<>> THEN <<>> ELSE Head(ss) \o Flatten(Tail(ss))

\* UTF-8 encoding of one code point (str::as_bytes is the string's UTF-8 bytes)
Utf8(c) ==
    IF c < 128 THEN <<c>>
    ELSE IF c < 2048 THEN <<192 + (c \div 64), 128 + (c % 64)>>
    ELSE IF c < 65536 THEN <<224 + (c \div 4096), 128 + ((c \div 64) % 64), 128 + (c % 64)>>
    ELSE <<240 + (c \div 262144), 128 + ((c \div 4096) % 64), 128 + ((c \div 64) % 64),
           128 + (c % 64)>>

as_bytes(s) == Flatten([i \in 1 .. Len(s) |-> Utf8(s[i])])

\* char::is_whitespace: the Unicode White_Space property
is_whitespace(c) ==
    c \in (9 .. 13) \cup {32, 133, 160, 5760, 8232, 8233, 8239, 8287, 12288}
           \cup (8192 .. 8202)

\* value of one ASCII hex digit, -1 when the byte is not one
HexDigitValue(b) ==
    IF b \in 48 .. 57 THEN b - 48
    ELSE IF b \in 65 .. 70 THEN b - 65 + 10
    ELSE IF b \in 97 .. 102 THEN b - 97 + 10
    ELSE -1

\* Faulty variant of hex_decode: an unpaired last digit is dropped instead of
\* being an error.
hex_decode_dropping_odd(data) ==
    LET pairValue(i) == HexDigitValue(data[2 * i - 1]) * 16 + HexDigitValue(data[2 * i])
        bad == \E i \in 1 .. Len(data) : HexDigitValue(data[i]) = -1
    IN IF bad THEN [ok |-> FALSE, bytes |-> <<>>]
       ELSE [ok |-> TRUE, bytes |-> [i \in 1 .. (Len(data) \div 2) |-> pairValue(i)]]

\* hex::decode: Err on an odd number of bytes or a byte that is no hex digit
hex_decode(data) ==
    IF Len(data) % 2 # 0 THEN [ok |-> FALSE, bytes |-> <<>>]
    ELSE LET pairValue(i) == HexDigitValue(data[2 * i - 1]) * 16 + HexDigitValue(data[2 * i])
             bad == \E i \in 1 .. Len(data) : HexDigitValue(data[i]) = -1
         IN IF bad THEN [ok |-> FALSE, bytes |-> <<>>]
            ELSE [ok |-> TRUE, bytes |-> [i \in 1 .. (Len(data) \div 2) |-> pairValue(i)]]

\* the digit loop of u8::from_str_radix: checked multiply-and-add, left to right
RECURSIVE AccumulateU8(_, _, _)
AccumulateU8(digits, i, acc) ==
    IF i > Len(digits) THEN [ok |-> TRUE, val |-> acc]
    ELSE LET d == HexDigitValue(digits[i])
         IN IF d = -1 THEN [ok |-> FALSE, val |-> 0]
            ELSE IF acc * 16 + d > 255 THEN [ok |-> FALSE, val |-> 0]
            ELSE AccumulateU8(digits, i + 1, acc * 16 + d)

\* Faulty variant of u8_from_str_radix16: a value above 255 wraps around
\* instead of being an error.
RECURSIVE AccumulateWrapping(_, _, _)
AccumulateWrapping(digits, i, acc) ==
    IF i > Len(digits) THEN [ok |-> TRUE, val |-> acc]
    ELSE LET d == HexDigitValue(digits[i])
         IN IF d = -1 THEN [ok |-> FALSE, val |-> 0]
            ELSE AccumulateWrapping(digits, i + 1, (acc * 16 + d) % 256)

u8_from_str_radix16_wrapping(text) ==
    LET src == as_bytes(text)
    IN IF src = <<>> THEN [ok |-> FALSE, val |-> 0]
       ELSE IF Len(src) = 1 /\ src[1] \in {43, 45} THEN [ok |-> FALSE, val |-> 0]
       ELSE IF src[1] = 43 THEN AccumulateWrapping(Tail(src), 1, 0)
       ELSE AccumulateWrapping(src, 1, 0)

\* u8::from_str_radix(text, 16): Err on the empty text, a lone sign, a byte that
\* is no hex digit (a '-' included: the type is unsigned) and a value above 255;
\* one leading '+' is accepted
u8_from_str_radix16(text) ==
    LET src == as_bytes(text)
    IN IF src = <<>> THEN [ok |-> FALSE, val |-> 0]
       ELSE IF Len(src) = 1 /\ src[1] \in {43, 45} THEN [ok |-> FALSE, val |-> 0]
       ELSE IF src[1] = 43 THEN AccumulateU8(Tail(src), 1, 0)
       ELSE AccumulateU8(src, 1, 0)

\* Faulty variant of Scan: resumes after the end of a match, so an occurrence
\* overlapping the previous one is lost.
RECURSIVE ScanSkippingFrom(_, _, _)
ScanSkippingFrom(data, pat, i) ==
    IF i + Len(pat) > Len(data) THEN <<>>
    ELSE IF SubSeq(data, i + 1, i + Len(pat)) = pat
         THEN <<i>> \o ScanSkippingFrom(data, pat, i + Len(pat))
         ELSE ScanSkippingFrom(data, pat, i + 1)

ScanSkipping(data, pat) == ScanSkippingFrom(data, pat, 0)

\* slice::windows(n).enumerate().filter_map(..).collect(): the zero-based start
\* of every window equal to the pattern, in the order the windows are produced
\* (there are len - n + 1 windows, none when the pattern is longer than the data)
Scan(data, pat) ==
    LET windows == IF Len(pat) <= Len(data) THEN Len(data) - Len(pat) + 1 ELSE 0
        starts == [i \in 1 .. windows |-> i - 1]
    IN SelectSeq(starts, LAMBDA i : SubSeq(data, i + 1, i + Len(pat)) = pat)

\* format!("Found {} match(es).", count)
FoundStatus(count) == "Found " \o ToString(count) \o " match(es)."

\* format!("Error loading file: {}", err_msg)
LoadErrorText(err_msg) == "Error loading file: " \o err_msg

(***************************************************************************)
(* HexEditor::jump_to_match, as the two values it may write.               *)
(***************************************************************************)
\* Faulty variant of JumpScrollTop: the byte offset of the match is taken for
\* its row.
JumpScrollTopByByte(results, result_index, height) ==
    LET match_start_byte == results[result_index + 1]
        scroll_pos_tenths == match_start_byte * ROW_HEIGHT_TENTHS - height * 5
    IN IF scroll_pos_tenths <= 0 THEN 0 ELSE scroll_pos_tenths \div 10

\* scroll_pos.max(0.0) as i32, for the match at results[result_index]
JumpScrollTop(results, result_index, height) ==
    LET match_start_byte == results[result_index + 1]
        target_row == match_start_byte \div BYTES_PER_ROW
        scroll_pos_tenths == target_row * ROW_HEIGHT_TENTHS - height * 5
    IN IF scroll_pos_tenths <= 0 THEN 0 ELSE scroll_pos_tenths \div 10

\* Faulty variant of jump_to_match: the container is scrolled and the cursor is
\* left where it was.
jump_to_match_scrolling_only(results, result_index) ==
    IF result_index < Len(results)
    THEN /\ UNCHANGED current_match_index
         /\ element_scroll_top' =
                IF mounted THEN JumpScrollTop(results, result_index, container_height)
                ELSE element_scroll_top
    ELSE /\ UNCHANGED current_match_index
         /\ UNCHANGED element_scroll_top

jump_to_match(results, result_index) ==
    IF result_index < Len(results)
    THEN /\ current_match_index' = Some(result_index)
         /\ element_scroll_top' =
                IF mounted THEN JumpScrollTop(results, result_index, container_height)
                ELSE element_scroll_top
    ELSE /\ UNCHANGED current_match_index
         /\ UNCHANGED element_scroll_top

(***************************************************************************)
(* HexEditor::view: the rows and bytes it renders.                         *)
(* (f64 to usize casts saturate: a negative quotient gives row 0.)         *)
(***************************************************************************)
\* Faulty variant of Window: the whole overscan is added on each side.
WindowFullOverscan(scroll_top_tenths, height, len) ==
    LET total_rows == (len + BYTES_PER_ROW - 1) \div BYTES_PER_ROW
        first_visible_row ==
            IF scroll_top_tenths <= 0 THEN 0 ELSE scroll_top_tenths \div ROW_HEIGHT_TENTHS
        num_visible_rows ==
            IF height <= 0 THEN 0
            ELSE (height * 10 + ROW_HEIGHT_TENTHS - 1) \div ROW_HEIGHT_TENTHS
        start_row ==
            IF first_visible_row >= OVERSCAN_ROWS
            THEN first_visible_row - OVERSCAN_ROWS ELSE 0
        reach == first_visible_row + num_visible_rows + OVERSCAN_ROWS
        end_row == IF reach <= total_rows THEN reach ELSE total_rows
        start_byte == start_row * BYTES_PER_ROW
        end_byte == IF end_row * BYTES_PER_ROW <= len THEN end_row * BYTES_PER_ROW ELSE len
    IN [total_rows |-> total_rows,
        first_visible_row |-> first_visible_row,
        num_visible_rows |-> num_visible_rows,
        start_row |-> start_row,
        end_row |-> end_row,
        visible_data_slice |->
            IF len = 0 \/ start_row >= end_row THEN None
            ELSE Some([start_byte |-> start_byte, end_byte |-> end_byte])]

\* the window of view for a scroll offset (tenths of a pixel), a container
\* height (pixels) and a buffer length; visible_data_slice is None for &[]
Window(scroll_top_tenths, height, len) ==
    LET total_rows == (len + BYTES_PER_ROW - 1) \div BYTES_PER_ROW
        first_visible_row ==
            IF scroll_top_tenths <= 0 THEN 0 ELSE scroll_top_tenths \div ROW_HEIGHT_TENTHS
        num_visible_rows ==
            IF height <= 0 THEN 0
            ELSE (height * 10 + ROW_HEIGHT_TENTHS - 1) \div ROW_HEIGHT_TENTHS
        start_row ==
            IF first_visible_row >= OVERSCAN_ROWS \div 2
            THEN first_visible_row - OVERSCAN_ROWS \div 2 ELSE 0
        reach == first_visible_row + num_visible_rows + OVERSCAN_ROWS \div 2
        end_row == IF reach <= total_rows THEN reach ELSE total_rows
        start_byte == start_row * BYTES_PER_ROW
        end_byte == IF end_row * BYTES_PER_ROW <= len THEN end_row * BYTES_PER_ROW ELSE len
    IN [total_rows |-> total_rows,
        first_visible_row |-> first_visible_row,
        num_visible_rows |-> num_visible_rows,
        start_row |-> start_row,
        end_row |-> end_row,
        visible_data_slice |->
            IF len = 0 \/ start_row >= end_row THEN None
            ELSE Some([start_byte |-> start_byte, end_byte |-> end_byte])]

\* what view computes in the current state
view == Window(scroll_top, container_height, Len(file_data))

(***************************************************************************)
(* The state after HexEditor::create.                                      *)
(***************************************************************************)
Init ==
    /\ file_name = NO_FILE_LOADED
    /\ file_data = <<>>
    /\ error = None
    /\ scroll_top = 0
    /\ container_height = INITIAL_CONTAINER_HEIGHT
    /\ search_term = <<>>
    /\ search_mode = "Ascii"
    /\ search_bytes = <<>>
    /\ search_results = <<>>
    /\ current_match_index = None
    /\ search_status = ""
    /\ mounted = FALSE
    /\ element_scroll_top = 0
    /\ pending = <<>>
    /\ settled = <<>>
    /\ last_msg = "create"
    /\ should_render = TRUE
    /\ just_loaded = None
    /\ download = None

\* what every call of update records about itself
Handled(msg, rendered_again, loaded, blob) ==
    /\ last_msg' = msg
    /\ should_render' = rendered_again
    /\ just_loaded' = loaded
    /\ download' = blob

(***************************************************************************)
(* HexEditor::rendered on the first render.                                *)
(***************************************************************************)
rendered(client_height) ==
    /\ ~mounted
    /\ mounted' = TRUE
    /\ container_height' = client_height
    /\ UNCHANGED <<file_name, file_data, error, scroll_top, search_term, search_mode,
                   search_bytes, search_results, current_match_index, search_status,
                   element_scroll_top, pending, settled, last_msg, should_render,
                   just_loaded, download>>

(***************************************************************************)
(* HexEditor::update, one action per Msg variant.                          *)
(***************************************************************************)
PendingCount == Len(pending)

LoadFile(name) ==
    /\ mounted
    /\ pending' = Append(pending, name)
    /\ Handled("LoadFile", FALSE, None, None)
    /\ settled' = <<>>
    /\ UNCHANGED <<editor, mounted, element_scroll_top>>

\* Faulty variant of FileLoaded: the stored pattern is cleared with the results.
FileLoadedClearingPattern(name, data) ==
    /\ file_name' = name
    /\ file_data' = data
    /\ error' = None
    /\ scroll_top' = 0
    /\ search_bytes' = <<>>
    /\ search_results' = <<>>
    /\ current_match_index' = None
    /\ search_status' = ""
    /\ Handled("FileLoaded", TRUE, Some([name |-> name, bytes |-> data]), None)
    /\ UNCHANGED <<container_height, search_term, search_mode, mounted,
                   element_scroll_top>>

\* Faulty variant of FileLoaded: the results of the previous search are kept.
FileLoadedKeepingResults(name, data) ==
    /\ file_name' = name
    /\ file_data' = data
    /\ error' = None
    /\ scroll_top' = 0
    /\ current_match_index' = None
    /\ search_status' = ""
    /\ Handled("FileLoaded", TRUE, Some([name |-> name, bytes |-> data]), None)
    /\ UNCHANGED <<container_height, search_term, search_mode, search_bytes,
                   search_results, mounted, element_scroll_top>>

\* Faulty variant of FileLoaded: the new bytes are written over the start of the
\* old buffer, whose tail survives when the new file is shorter.
FileLoadedMerging(name, data) ==
    /\ file_name' = name
    /\ file_data' = data \o SubSeq(file_data, Len(data) + 1, Len(file_data))
    /\ error' = None
    /\ scroll_top' = 0
    /\ search_results' = <<>>
    /\ current_match_index' = None
    /\ search_status' = ""
    /\ Handled("FileLoaded", TRUE, Some([name |-> name, bytes |-> data]), None)
    /\ UNCHANGED <<container_height, search_term, search_mode, search_bytes,
                   mounted, element_scroll_top>>

FileLoaded(name, data) ==
    /\ file_name' = name
    /\ file_data' = data
    /\ error' = None
    /\ scroll_top' = 0
    /\ search_results' = <<>>
    /\ current_match_index' = None
    /\ search_status' = ""
    /\ Handled("FileLoaded", TRUE, Some([name |-> name, bytes |-> data]), None)
    /\ UNCHANGED <<container_height, search_term, search_mode, search_bytes,
                   mounted, element_scroll_top>>

\* Faulty variant of FileLoadError: the banner is set and the buffer of the
\* previous file is left loaded.
FileLoadErrorKeepingBuffer(err_msg) ==
    /\ error' = Some(LoadErrorText(err_msg))
    /\ Handled("FileLoadError", TRUE, None, None)
    /\ UNCHANGED <<file_name, file_data, scroll_top, container_height, search_term,
                   search_mode, search_bytes, search_results, current_match_index,
                   search_status, mounted, element_scroll_top>>

FileLoadError(err_msg) ==
    /\ error' = Some(LoadErrorText(err_msg))
    /\ file_data' = <<>>
    /\ file_name' = NO_FILE_LOADED
    /\ Handled("FileLoadError", TRUE, None, None)
    /\ UNCHANGED <<scroll_top, container_height, search_term, search_mode, search_bytes,
                   search_results, current_match_index, search_status,
                   mounted, element_scroll_top>>

\* Faulty variant of update_byte: the byte after the one addressed is written.
update_byte_off_by_one(data, index, hex_value) ==
    LET parsed == u8_from_str_radix16(hex_value)
    IN IF index + 1 < Len(data) /\ parsed.ok
       THEN [data |-> [data EXCEPT ![index + 2] = parsed.val], written |-> TRUE]
       ELSE [data |-> data, written |-> FALSE]

\* the body of the UpdateByte arm: the buffer it leaves and whether it wrote
\* (get_mut(index) is Some, and the text parses)
update_byte(data, index, hex_value) ==
    LET parsed == u8_from_str_radix16(hex_value)
    IN IF index < Len(data) /\ parsed.ok
       THEN [data |-> [data EXCEPT ![index + 1] = parsed.val], written |-> TRUE]
       ELSE [data |-> data, written |-> FALSE]

\* Faulty variant of UpdateByte: a successful write runs the stored pattern over
\* the edited buffer again.
UpdateByteRescanning(index, hex_value) ==
    /\ mounted
    /\ LET done == update_byte(file_data, index, hex_value)
           found == Scan(done.data, search_bytes)
       IN /\ file_data' = done.data
          /\ Handled("UpdateByte", done.written, None, None)
          /\ IF done.written /\ search_bytes # <<>>
             THEN /\ search_results' = found
                  /\ current_match_index' = (IF found = <<>> THEN None ELSE Some(0))
                  /\ search_status' = (IF found = <<>> THEN "Not found."
                                       ELSE FoundStatus(Len(found)))
             ELSE UNCHANGED <<search_results, current_match_index, search_status>>
    /\ settled' = <<>>
    /\ UNCHANGED <<file_name, error, scroll_top, container_height, search_term,
                   search_mode, search_bytes, mounted, element_scroll_top, pending>>

UpdateByte(index, hex_value) ==
    /\ mounted
    /\ LET done == update_byte(file_data, index, hex_value)
       IN /\ file_data' = done.data
          /\ Handled("UpdateByte", done.written, None, None)
          /\ settled' = <<>>
    /\ UNCHANGED <<file_name, error, scroll_top, container_height, search_term,
                   search_mode, search_bytes, search_results, current_match_index,
                   search_status, mounted, element_scroll_top, pending>>

\* the blob and the anchor's download attribute
Blob(name, data) == [name |-> name, bytes |-> data, mime |-> OCTET_STREAM]

\* Faulty variant of SaveFile: the empty buffer is exported too.
SaveFileAlways ==
    /\ mounted
    /\ Handled("SaveFile", FALSE, just_loaded, Some(Blob(file_name, file_data)))
    /\ settled' = <<>>
    /\ UNCHANGED <<editor, mounted, element_scroll_top, pending>>

SaveFile ==
    /\ mounted
    /\ IF file_data # <<>>
       THEN Handled("SaveFile", FALSE, just_loaded, Some(Blob(file_name, file_data)))
       ELSE Handled("SaveFile", FALSE, just_loaded, None)
    /\ settled' = <<>>
    /\ UNCHANGED <<editor, mounted, element_scroll_top, pending>>

Scrolled(target_scroll_top) ==
    /\ mounted
    /\ scroll_top' = target_scroll_top * 10
    /\ Handled("Scrolled", TRUE, None, None)
    /\ settled' = <<>>
    /\ UNCHANGED <<file_name, file_data, error, container_height, search_term,
                   search_mode, search_bytes, search_results, current_match_index,
                   search_status, mounted, element_scroll_top, pending>>

\* Faulty variant of UpdateSearchTerm: the matches are dropped as soon as the
\* text in the search box changes.
UpdateSearchTermResetting(term) ==
    /\ mounted
    /\ search_term' = term
    /\ IF term # search_term
       THEN /\ search_results' = <<>>
            /\ current_match_index' = None
            /\ search_status' = ""
       ELSE UNCHANGED <<search_results, current_match_index, search_status>>
    /\ Handled("UpdateSearchTerm", TRUE, None, None)
    /\ settled' = <<>>
    /\ UNCHANGED <<file_name, file_data, error, scroll_top, container_height,
                   search_mode, search_bytes, mounted, element_scroll_top, pending>>

UpdateSearchTerm(term) ==
    /\ mounted
    /\ search_term' = term
    /\ Handled("UpdateSearchTerm", TRUE, None, None)
    /\ settled' = <<>>
    /\ UNCHANGED <<file_name, file_data, error, scroll_top, container_height,
                   search_mode, search_bytes, search_results, current_match_index,
                   search_status, mounted, element_scroll_top, pending>>

UpdateSearchMode(mode) ==
    /\ mounted
    /\ search_mode' = mode
    /\ Handled("UpdateSearchMode", TRUE, None, None)
    /\ settled' = <<>>
    /\ UNCHANGED <<file_name, file_data, error, scroll_top, container_height,
                   search_term, search_bytes, search_results, current_match_index,
                   search_status, mounted, element_scroll_top, pending>>

\* Faulty variant of DecodePattern: the hex text is decoded as typed, whitespace
\* included.
DecodePatternUnstripped(term, mode) ==
    IF mode = "Ascii" THEN [ok |-> TRUE, bytes |-> as_bytes(term)]
    ELSE hex_decode(as_bytes(term))

\* the pattern the query decodes to under the mode
DecodePattern(term, mode) ==
    IF mode = "Ascii" THEN [ok |-> TRUE, bytes |-> as_bytes(term)]
    ELSE LET cleaned == SelectSeq(term, LAMBDA c : ~is_whitespace(c))
         IN hex_decode(as_bytes(cleaned))

\* Faulty variant of ExecuteSearch: the old results are not cleared first, so
\* the new ones are appended to them.
ExecuteSearchAppending ==
    /\ mounted
    /\ LET decoded == DecodePattern(search_term, search_mode)
       IN IF ~decoded.ok
          THEN /\ search_results' = <<>>
               /\ current_match_index' = None
               /\ search_status' = "Invalid Hex sequence."
               /\ UNCHANGED <<search_bytes, element_scroll_top>>
          ELSE IF decoded.bytes = <<>>
          THEN /\ search_results' = <<>>
               /\ current_match_index' = None
               /\ search_status' = ""
               /\ UNCHANGED <<search_bytes, element_scroll_top>>
          ELSE LET found == Scan(file_data, decoded.bytes)
                   all == IF Len(search_results) + Len(found) <= 2 * MaxLen
                          THEN search_results \o found ELSE found
               IN /\ search_bytes' = decoded.bytes
                  /\ search_results' = all
                  /\ IF all = <<>>
                     THEN /\ search_status' = "Not found."
                          /\ current_match_index' = None
                          /\ UNCHANGED element_scroll_top
                     ELSE /\ search_status' = FoundStatus(Len(all))
                          /\ jump_to_match(all, 0)
    /\ Handled("ExecuteSearch", TRUE, None, None)
    /\ settled' = <<>>
    /\ UNCHANGED <<file_name, file_data, error, scroll_top, container_height,
                   search_term, search_mode, mounted, pending>>

ExecuteSearch ==
    /\ mounted
    /\ LET decoded == DecodePattern(search_term, search_mode)
       IN IF ~decoded.ok
          THEN /\ search_results' = <<>>
               /\ current_match_index' = None
               /\ search_status' = "Invalid Hex sequence."
               /\ UNCHANGED <<search_bytes, element_scroll_top>>
          ELSE IF decoded.bytes = <<>>
          THEN /\ search_results' = <<>>
               /\ current_match_index' = None
               /\ search_status' = ""
               /\ UNCHANGED <<search_bytes, element_scroll_top>>
          ELSE LET found == Scan(file_data, decoded.bytes)
               IN /\ search_bytes' = decoded.bytes
                  /\ search_results' = found
                  /\ IF found = <<>>
                     THEN /\ search_status' = "Not found."
                          /\ current_match_index' = None
                          /\ UNCHANGED element_scroll_top
                     ELSE /\ search_status' = FoundStatus(Len(found))
                          /\ jump_to_match(found, 0)
    /\ Handled("ExecuteSearch", TRUE, None, None)
    /\ settled' = <<>>
    /\ UNCHANGED <<file_name, file_data, error, scroll_top, container_height,
                   search_term, search_mode, mounted, pending>>

\* Faulty variant of next_index: stops at the last match instead of wrapping.
next_index_saturating(current, len) ==
    IF current = None THEN 0
    ELSE IF current[1] + 1 < len THEN current[1] + 1 ELSE current[1]

\* current_match_index.map_or(0, |i| (i + 1) % len)
next_index(current, len) ==
    IF current = None THEN 0 ELSE (current[1] + 1) % len

FindNext ==
    /\ mounted
    /\ IF search_results # <<>>
       THEN jump_to_match(search_results,
                          next_index(current_match_index, Len(search_results)))
       ELSE UNCHANGED <<current_match_index, element_scroll_top>>
    /\ Handled("FindNext", TRUE, None, None)
    /\ settled' = <<>>
    /\ UNCHANGED <<file_name, file_data, error, scroll_top, container_height,
                   search_term, search_mode, search_bytes, search_results,
                   search_status, mounted, pending>>

\* Faulty variant of prev_index: stops at the first match instead of wrapping.
prev_index_saturating(current, total) ==
    IF current = None THEN total - 1
    ELSE IF current[1] > 0 THEN current[1] - 1 ELSE 0

\* current_match_index.map_or(total - 1, |i| (i + total - 1) % total)
prev_index(current, total) ==
    IF current = None THEN total - 1 ELSE (current[1] + total - 1) % total

FindPrevious ==
    /\ mounted
    /\ IF search_results # <<>>
       THEN jump_to_match(search_results,
                          prev_index(current_match_index, Len(search_results)))
       ELSE UNCHANGED <<current_match_index, element_scroll_top>>
    /\ Handled("FindPrevious", TRUE, None, None)
    /\ settled' = <<>>
    /\ UNCHANGED <<file_name, file_data, error, scroll_top, container_height,
                   search_term, search_mode, search_bytes, search_results,
                   search_status, mounted, pending>>

(***************************************************************************)
(* Where FileLoaded and FileLoadError come from: the future LoadFile       *)
(* spawned resolves, or the file input changed with no file selected.      *)
(***************************************************************************)
\* a sequence without its k-th element
RemoveAt(s, k) == SubSeq(s, 1, k - 1) \o SubSeq(s, k + 1, Len(s))

\* the k-th oldest read in flight resolves: there is no order among the futures
ReadSucceeds(k, data) ==
    /\ mounted
    /\ k \in 1 .. Len(pending)
    /\ pending' = RemoveAt(pending, k)
    /\ settled' = Append(settled, [name |-> pending[k], kind |-> "FileLoaded",
                                   ahead |-> k - 1])
    /\ FileLoaded(pending[k], data)

ReadFails(k, err_msg) ==
    /\ mounted
    /\ k \in 1 .. Len(pending)
    /\ pending' = RemoveAt(pending, k)
    /\ settled' = Append(settled, [name |-> pending[k], kind |-> "FileLoadError",
                                   ahead |-> k - 1])
    /\ FileLoadError(err_msg)

NoFileSelected ==
    /\ mounted
    /\ UNCHANGED pending
    /\ settled' = <<>>
    /\ FileLoadError(NO_FILE_SELECTED)

\* Messages are dispatched one at a time, and only once the component is mounted
\* (every callback that sends one is attached by the first render): each handler
\* above starts with that guard. The number of reads in flight is capped here.
Next ==
    \/ \E h \in ClientHeights : rendered(h)
    \/ \E n \in FileNames : PendingCount < MaxPending /\ LoadFile(n)
    \/ \E k \in 1 .. MaxPending, d \in FileContents : ReadSucceeds(k, d)
    \/ \E k \in 1 .. MaxPending, e \in ReadErrors : ReadFails(k, e)
    \/ NoFileSelected
    \/ \E i \in Indices, t \in CellTexts : UpdateByte(i, t)
    \/ SaveFile
    \/ \E s \in ScrollTops : Scrolled(s)
    \/ \E t \in SearchTerms : UpdateSearchTerm(t)
    \/ \E m \in SearchModes : UpdateSearchMode(m)
    \/ ExecuteSearch
    \/ FindNext
    \/ FindPrevious

Spec == Init /\ [][Next]_vars

(***************************************************************************)
(* The file input alone, with several reads in flight: the user picks one  *)
(* file after another and the reads resolve in any order.                  *)
(***************************************************************************)
NextRace ==
    \/ \E h \in ClientHeights : rendered(h)
    \/ \E n \in RaceNames : PendingCount < MaxRacing /\ LoadFile(n)
    \/ \E k \in 1 .. MaxRacing, d \in FileContents : ReadSucceeds(k, d)
    \/ \E k \in 1 .. MaxRacing, e \in ReadErrors : ReadFails(k, e)
    \/ NoFileSelected

SpecRace == Init /\ [][NextRace]_vars

(***************************************************************************)
(* Long files in the scroll container: loading, scrolling, searching and   *)
(* stepping through the matches. Writing scrollTop in jump_to_match makes  *)
(* the browser raise a scroll event that reports the value written.        *)
(***************************************************************************)
NextView ==
    \/ \E h \in ViewHeights : rendered(h)
    \/ \E n \in FileNames : PendingCount < MaxPending /\ LoadFile(n)
    \/ \E k \in 1 .. MaxPending, d \in ViewContents : ReadSucceeds(k, d)
    \/ \E k \in 1 .. MaxPending, e \in ReadErrors : ReadFails(k, e)
    \/ \E s \in ViewScrollTops : Scrolled(s)
    \/ Scrolled(element_scroll_top)
    \/ \E t \in ViewTerms : UpdateSearchTerm(t)
    \/ ExecuteSearch
    \/ FindNext
    \/ FindPrevious

SpecView == Init /\ [][NextView]_vars

(***************************************************************************)
(* Properties.                                                             *)
(***************************************************************************)
\* the elements of a sequence
Range(s) == {s[k] : k \in 1 .. Len(s)}

StrictlyAscending(s) == \A k \in 1 .. Len(s) - 1 : s[k] < s[k + 1]

\* every zero-based offset at which pat occurs in data
Occurrences(data, pat) ==
    {i \in 0 .. Len(data) :
        /\ i + Len(pat) <= Len(data)
        /\ \A j \in 1 .. Len(pat) : data[i + j] = pat[j]}

\* C1: after ExecuteSearch with a query that decodes to a non-empty pattern P,
\* search_results lists, in ascending order and once each, exactly the offsets i
\* with i + len(P) <= len(file_data) at which P occurs in file_data (overlapping
\* occurrences included), P is the stored pattern, and the list is empty when P
\* is longer than the buffer.
C1_MatchesAreAllOccurrences ==
    LET decoded == DecodePattern(search_term, search_mode)
    IN (last_msg = "ExecuteSearch" /\ decoded.ok /\ decoded.bytes # <<>>) =>
           /\ StrictlyAscending(search_results)
           /\ Range(search_results) = Occurrences(file_data, decoded.bytes)
           /\ search_bytes = decoded.bytes
           /\ (Len(decoded.bytes) > Len(file_data) => search_results = <<>>)

\* C1 witness: the ASCII query "AA" has just been searched in the buffer "AAA"
\* and found at the overlapping offsets 0 and 1.
C1_Witness ==
    /\ last_msg = "ExecuteSearch"
    /\ search_mode = "Ascii"
    /\ search_term = <<65, 65>>
    /\ file_data = <<65, 65, 65>>
    /\ search_results = <<0, 1>>

\* C2: right after a FileLoaded message the search is idle: no matches, no
\* current match, empty status.
C2_LoadResetsSearch ==
    last_msg = "FileLoaded" =>
        /\ search_results = <<>>
        /\ current_match_index = None
        /\ search_status = ""

\* C2 witness: a file holding three occurrences of the pattern searched last
\* ("A") has just been loaded, and no match is recorded for it.
C2_Witness ==
    /\ last_msg = "FileLoaded"
    /\ search_bytes = <<65>>
    /\ file_data = <<65, 65, 65>>
    /\ search_results = <<>>
    /\ current_match_index = None

\* C3 (as read from the specification): right after a FileLoaded message the
\* stored pattern is empty, together with the matches and the cursor.
C3_LoadClearsPattern ==
    last_msg = "FileLoaded" =>
        /\ search_bytes = <<>>
        /\ search_results = <<>>
        /\ current_match_index = None

\* C3 (what the handler does): a FileLoaded message empties the matches and the
\* cursor and leaves the stored pattern as it was.
C3_LoadKeepsPattern ==
    [][last_msg' = "FileLoaded" =>
          /\ search_bytes' = search_bytes
          /\ search_results' = <<>>
          /\ current_match_index' = None]_vars

\* C3 witness: a file has just been loaded and the pattern "AA" of an earlier
\* search is still stored.
C3_Witness ==
    /\ last_msg = "FileLoaded"
    /\ search_bytes = <<65, 65>>
    /\ search_results = <<>>

HexDigitChars == (48 .. 57) \cup (65 .. 70) \cup (97 .. 102)

\* the query is no hex literal: once its whitespace is removed, its length is
\* odd or one of its characters is no hex digit
BadHexQuery(term) ==
    LET stripped == SelectSeq(term, LAMBDA c : ~is_whitespace(c))
    IN \/ Len(stripped) % 2 = 1
       \/ \E k \in 1 .. Len(stripped) : stripped[k] \notin HexDigitChars

\* C4: an ExecuteSearch in Hex mode on a query that is no hex literal ends with
\* no matches, no current match and the status "Invalid Hex sequence.", and
\* leaves the buffer and the file name as they were, whatever the matches and
\* the cursor were before.
C4_InvalidHexClearsSearch ==
    [][(last_msg' = "ExecuteSearch" /\ search_mode = "Hex" /\ BadHexQuery(search_term)) =>
          /\ search_results' = <<>>
          /\ current_match_index' = None
          /\ search_status' = "Invalid Hex sequence."
          /\ file_data' = file_data
          /\ file_name' = file_name]_vars

\* C4 witness: the odd-length hex query "A" has just been rejected on a
\* non-empty buffer in which an earlier search had stored a pattern.
C4_Witness ==
    /\ last_msg = "ExecuteSearch"
    /\ search_mode = "Hex"
    /\ search_term = <<65>>
    /\ search_status = "Invalid Hex sequence."
    /\ search_results = <<>>
    /\ current_match_index = None
    /\ search_bytes = <<65>>
    /\ file_data = <<65, 65, 65>>

\* C5 (as read from the specification, for a query that decodes to a non-empty
\* pattern): every ExecuteSearch leaves the cursor at 0, and one that directly
\* follows another leaves the matches as they were.
C5_ExecuteTwiceCursorZero ==
    [][(/\ last_msg' = "ExecuteSearch"
        /\ DecodePattern(search_term, search_mode).ok
        /\ DecodePattern(search_term, search_mode).bytes # <<>>) =>
          /\ current_match_index' = Some(0)
          /\ (last_msg = "ExecuteSearch" => search_results' = search_results)]_vars

\* C5 (what the handler does): every ExecuteSearch leaves the cursor at 0 when
\* it finds a match and at None when it finds none, wherever the cursor was
\* before; one that directly follows another (query, mode and buffer are then
\* unchanged) leaves matches and cursor as the first left them.
C5_ExecuteTwiceSameResult ==
    [][last_msg' = "ExecuteSearch" =>
          /\ current_match_index' = (IF search_results' # <<>> THEN Some(0) ELSE None)
          /\ (last_msg = "ExecuteSearch" =>
                 /\ search_results' = search_results
                 /\ current_match_index' = current_match_index)]_vars

\* C5 witness: a search has just found three matches and put the cursor on the
\* first of them.
C5_Witness ==
    /\ last_msg = "ExecuteSearch"
    /\ search_results = <<0, 1, 2>>
    /\ current_match_index = Some(0)

\* C6: a FindNext never changes search_results; with no matches it changes
\* nothing of the editor; otherwise the cursor becomes 0 when it was None and
\* (cursor + 1) mod len(matches) when it was set, so the last index wraps to 0.
\* (No reachable state has matches and no cursor, so the closure that computes
\* the index is also evaluated on None directly.)
C6_FindNextAdvances ==
    [][last_msg' = "FindNext" =>
          /\ search_results' = search_results
          /\ (search_results = <<>> =>
                 editor' = editor /\ element_scroll_top' = element_scroll_top)
          /\ (search_results # <<>> =>
                 current_match_index' =
                     IF current_match_index = None THEN Some(0)
                     ELSE Some((current_match_index[1] + 1) % Len(search_results)))
          /\ (current_match_index = Some(Len(search_results) - 1) =>
                 current_match_index' = Some(0))
          /\ \A n \in 1 .. MaxLen : next_index(None, n) = 0]_vars

\* C6 witness: FindNext has just put the cursor on the first of three matches,
\* which it does only from the last one.
C6_Witness ==
    /\ last_msg = "FindNext"
    /\ Len(search_results) = 3
    /\ current_match_index = Some(0)

\* C7: a FindPrevious never changes search_results; with no matches it changes
\* nothing of the editor; otherwise the cursor becomes len(matches) - 1 when it
\* was None or 0 and cursor - 1 when it was above 0.
\* (No reachable state has matches and no cursor, so the closure that computes
\* the index is also evaluated on None directly.)
C7_FindPreviousRetreats ==
    [][last_msg' = "FindPrevious" =>
          /\ search_results' = search_results
          /\ (search_results = <<>> =>
                 editor' = editor /\ element_scroll_top' = element_scroll_top)
          /\ (search_results # <<>> =>
                 current_match_index' =
                     IF current_match_index = None \/ current_match_index = Some(0)
                     THEN Some(Len(search_results) - 1)
                     ELSE Some(current_match_index[1] - 1))
          /\ \A n \in 1 .. MaxLen : prev_index(None, n) = n - 1]_vars

\* C7 witness: FindPrevious has just put the cursor on the last of three
\* matches, which it does only from the first one.
C7_Witness ==
    /\ last_msg = "FindPrevious"
    /\ Len(search_results) = 3
    /\ current_match_index = Some(2)

\* C8 (as read from the specification): a SaveFile handled right after
\* FileLoaded(N, B), for any B, hands the browser the bytes B under the name N
\* and changes nothing of the editor.
C8_ExportAfterLoadAlways ==
    [][(just_loaded # None /\ last_msg' = "SaveFile") =>
          /\ download' = Some([name |-> just_loaded[1].name,
                               bytes |-> just_loaded[1].bytes,
                               mime |-> "application/octet-stream"])
          /\ editor' = editor]_vars

\* C8 (what the handler does): a SaveFile handled right after FileLoaded(N, B)
\* hands the browser the bytes B under the name N when B is not empty and
\* nothing when B is empty; either way it changes nothing of the editor.
C8_ExportAfterLoad ==
    [][(just_loaded # None /\ last_msg' = "SaveFile") =>
          /\ download' =
                 IF just_loaded[1].bytes # <<>>
                 THEN Some([name |-> just_loaded[1].name,
                            bytes |-> just_loaded[1].bytes,
                            mime |-> "application/octet-stream"])
                 ELSE None
          /\ editor' = editor]_vars

\* C8 witness: the bytes 41 FF 41 loaded as "a.bin" have just been exported,
\* with nothing but exports handled since the load.
C8_Witness ==
    /\ last_msg = "SaveFile"
    /\ just_loaded = Some([name |-> "a.bin", bytes |-> <<65, 255, 65>>])
    /\ download = Some([name |-> "a.bin", bytes |-> <<65, 255, 65>>,
                        mime |-> "application/octet-stream"])

\* "0123456789ABCDEF" and "0123456789abcdef"
UpperHexDigits == <<48, 49, 50, 51, 52, 53, 54, 55, 56, 57, 65, 66, 67, 68, 69, 70>>
LowerHexDigits == <<48, 49, 50, 51, 52, 53, 54, 55, 56, 57, 97, 98, 99, 100, 101, 102>>

HexCharValue(c) ==
    CHOOSE v \in 0 .. 15 : UpperHexDigits[v + 1] = c \/ LowerHexDigits[v + 1] = c

\* the digits of a literal: the text without its leading '+', if it has one
LiteralDigits(text) ==
    IF text # <<>> /\ text[1] = 43 THEN Tail(text) ELSE text

RECURSIVE Pow16(_)
Pow16(n) == IF n = 0 THEN 1 ELSE 16 * Pow16(n - 1)

RECURSIVE PositionalSum(_, _)
PositionalSum(digits, k) ==
    IF k > Len(digits) THEN 0
    ELSE HexCharValue(digits[k]) * Pow16(Len(digits) - k) + PositionalSum(digits, k + 1)

LiteralValue(text) == PositionalSum(LiteralDigits(text), 1)

\* a base-16 unsigned integer literal of value at most 255, in the grammar of
\* the parser: an optional '+', then one or more hex digits of either case
IsByteLiteral(text) ==
    LET digits == LiteralDigits(text)
    IN /\ digits # <<>>
       /\ \A k \in 1 .. Len(digits) : digits[k] \in HexDigitChars
       /\ LiteralValue(text) <= 255

C10_UpdateByteFrame ==
    /\ [](\A i \in Indices, t \in CellTexts :
            LET done == update_byte(file_data, i, t)
            IN /\ Len(done.data) = Len(file_data)
               /\ \A j \in 1 .. Len(file_data) :
                      j # i + 1 => done.data[j] = file_data[j]
               /\ (i >= Len(file_data) =>
                      done.data = file_data /\ done.written = FALSE))
    /\ [][last_msg' = "UpdateByte" =>
             /\ file_name' = file_name
             /\ error' = error
             /\ <<scroll_top, container_height, search_term, search_mode,
                  search_bytes, search_results, current_match_index,
                  search_status>>' =
                <<scroll_top, container_height, search_term, search_mode,
                  search_bytes, search_results, current_match_index,
                  search_status>>
             /\ (should_render' = FALSE => editor' = editor)
             /\ Len(file_data') = Len(file_data)
             /\ Cardinality({j \in 1 .. Len(file_data) :
                                 file_data'[j] # file_data[j]}) <= 1]_vars

\* C10 witness: an UpdateByte has just been applied and the buffer differs
\* from a run of 'A' in its middle byte alone.
C10_Witness ==
    /\ last_msg = "UpdateByte"
    /\ should_render = TRUE
    /\ file_data = <<65, 255, 65>>

\* C11: an UpdateByte, whether it writes or not and wherever its index lies,
\* leaves matches, cursor, stored pattern and status as they were; the matches
\* change in no message but ExecuteSearch and FileLoaded, and an ExecuteSearch
\* records the occurrences of the pattern in the buffer as it is at that moment:
\* so between two of those messages the matches are those of the buffer of the
\* last ExecuteSearch, whatever was edited since.
C11_EditsKeepStaleMatches ==
    [][/\ (last_msg' = "UpdateByte" =>
              /\ search_results' = search_results
              /\ current_match_index' = current_match_index
              /\ search_bytes' = search_bytes
              /\ search_status' = search_status)
       /\ (last_msg' \notin {"ExecuteSearch", "FileLoaded"} =>
              search_results' = search_results /\ search_bytes' = search_bytes)
       /\ (last_msg' = "ExecuteSearch" =>
              /\ file_data' = file_data
              /\ StrictlyAscending(search_results')
              /\ Range(search_results') =
                     IF DecodePattern(search_term, search_mode).ok
                        /\ DecodePattern(search_term, search_mode).bytes # <<>>
                     THEN Occurrences(file_data, search_bytes')
                     ELSE {})]_vars

\* C11 witness: the byte under the current match (the second of three matches
\* of "A") has just been overwritten, and the three matches are still recorded.
C11_Witness ==
    /\ last_msg = "UpdateByte"
    /\ should_render = TRUE
    /\ file_data = <<65, 255, 65>>
    /\ search_bytes = <<65>>
    /\ search_results = <<0, 1, 2>>
    /\ current_match_index = Some(1)
    /\ search_status = "Found 3 match(es)."

\* C12: whenever the message handled last is a read resolving, however many
\* reads were in flight and in whatever order they resolved, the buffer and the
\* name are wholly those of that last message: the name and exactly the bytes
\* of the file when it is a FileLoaded, the empty buffer, the sentinel name and
\* the error banner when it is a FileLoadError. In particular this is the state
\* once every read in flight has resolved.
C12_LastCompletionWins ==
    settled # <<>> =>
        LET last == settled[Len(settled)]
        IN IF last.kind = "FileLoaded"
           THEN /\ just_loaded # None
                /\ just_loaded[1].name = last.name
                /\ file_name = last.name
                /\ file_data = just_loaded[1].bytes
                /\ error = None
           ELSE /\ file_data = <<>>
                /\ file_name = NO_FILE_LOADED
                /\ error \in {Some(LoadErrorText(e)) : e \in ReadErrors}

\* C12 witness: "a.bin" was picked, then "b.bin"; the read of "b.bin", the newer
\* one, resolved first with the file's bytes while the older was still in
\* flight, then the read of "a.bin" failed; no read is left in flight.
C12_Witness ==
    /\ pending = <<>>
    /\ settled = << [name |-> "b.bin", kind |-> "FileLoaded", ahead |-> 1],
                    [name |-> "a.bin", kind |-> "FileLoadError", ahead |-> 0] >>
    /\ file_data = <<>>
    /\ file_name = "no file loaded"

\* C13: a FileLoadError leaves the buffer empty, the name at the sentinel
\* "no file loaded" and the banner set to "Error loading file: " and the reason;
\* a banner that is set stays set, with the same text, across every message but
\* FileLoaded, which clears it, and FileLoadError, which sets it again.
C13_LoadErrorBanner ==
    [][/\ (last_msg' = "FileLoadError" =>
              /\ file_data' = <<>>
              /\ file_name' = "no file loaded"
              /\ error' \in {Some("Error loading file: " \o e) :
                                e \in ReadErrors \cup {"No file selected."}})
       /\ (last_msg' = "FileLoaded" => error' = None)
       /\ (last_msg' \notin {"FileLoaded", "FileLoadError"} => error' = error)
       /\ ((error # None /\ last_msg' # "FileLoaded") => error' # None)]_vars

\* C13 witness: a read failed while "AAA" was loaded and searched; a FindNext
\* has been handled since, and the banner is still shown over the empty buffer.
C13_Witness ==
    /\ last_msg = "FindNext"
    /\ error = Some("Error loading file: NotReadableError")
    /\ file_data = <<>>
    /\ file_name = "no file loaded"
    /\ search_results = <<0, 1, 2>>

\* C14: in every state whose buffer has at least one row, the window view
\* computes satisfies start_row <= first_visible_row <= end_row, where
\* first_visible_row = floor(scroll_top / ROW_HEIGHT).
C14_WindowBracketsFirstVisibleRow ==
    view.total_rows > 0 =>
        /\ view.start_row <= view.first_visible_row
        /\ view.first_visible_row <= view.end_row

\* C14, the state that refutes it: a file of one row is loaded and the scroll
\* container has reported scrollTop = 60, the third row.
C14_ScrolledPastTheEnd ==
    /\ last_msg = "Scrolled"
    /\ Len(file_data) = 1
    /\ scroll_top = 600
    /\ view.first_visible_row = 2
    /\ view.end_row = 1

\* C15: in every state the window holds at most num_visible_rows + OVERSCAN_ROWS
\* rows, whatever the length of the buffer, and the bytes it renders start on a
\* row boundary, end on a row boundary or at the end of the buffer, and lie
\* inside the buffer.
C15_WindowIsBounded ==
    /\ view.end_row - view.start_row <= view.num_visible_rows + 10
    /\ view.end_row <= view.total_rows
    /\ (view.visible_data_slice # None =>
           LET slice == view.visible_data_slice[1]
           IN /\ slice.start_byte % 16 = 0
              /\ (slice.end_byte % 16 = 0 \/ slice.end_byte = Len(file_data))
              /\ slice.start_byte < slice.end_byte
              /\ slice.end_byte <= Len(file_data))

\* C15 witness: a file of 470 bytes (30 rows) scrolled to row 23 in a container
\* 30 pixels high: the window is the 2 + 10 rows 18 .. 29, and its last byte is
\* the last of the file, inside the last row.
C15_Witness ==
    /\ last_msg = "Scrolled"
    /\ Len(file_data) = 470
    /\ view.num_visible_rows = 2
    /\ view.start_row = 18
    /\ view.end_row = 30
    /\ view.visible_data_slice = Some([start_byte |-> 288, end_byte |-> 470])

\* floor(m / 16) * ROW_HEIGHT - height / 2, clamped to >= 0, in tenths of a pixel
CenteringOffsetTenths(m, height) ==
    LET centred == (m \div 16) * 296 - height * 5
    IN IF centred >= 0 THEN centred ELSE 0

\* the row of the byte at offset m is one of the rows of the window
RowInWindow(m, window) ==
    /\ window.start_row <= m \div 16
    /\ m \div 16 < window.end_row

\* C18: in every state, for every recorded match m that lies in the buffer, the
\* window computed for the container's height at the scroll offset
\* max(0, floor(m/16) * ROW_HEIGHT - height/2) holds the row of m; and so does
\* the window at the offset jump_to_match writes to scrollTop for that match
\* (the same offset cut to whole pixels).
C18_JumpShowsMatch ==
    \A k \in 1 .. Len(search_results) :
        LET m == search_results[k]
        IN m < Len(file_data) =>
              /\ RowInWindow(m, Window(CenteringOffsetTenths(m, container_height),
                                       container_height, Len(file_data)))
              /\ RowInWindow(m, Window(10 * JumpScrollTop(search_results, k - 1,
                                                          container_height),
                                       container_height, Len(file_data)))

\* C18 witness: in a file of 470 bytes the match at offset 400 (row 25) is the
\* current one, the container has reported the scrollTop that jump_to_match
\* wrote for it, and row 25 is in the window view computes.
C18_Witness ==
    /\ last_msg = "Scrolled"
    /\ Len(file_data) = 470
    /\ current_match_index = Some(4)
    /\ search_results[5] = 400
    /\ element_scroll_top = JumpScrollTop(search_results, 4, container_height)
    /\ scroll_top = 10 * element_scroll_top
    /\ scroll_top > 0
    /\ RowInWindow(400, view)

\* tab, line feed, space, no-break space, ideographic space
WhitespaceSamples == {9, 10, 32, 160, 12288}

\* the characters with the Unicode property White_Space
WhiteSpaceChars ==
    {9, 10, 11, 12, 13, 32, 133, 160, 5760, 8192, 8193, 8194, 8195, 8196, 8197, 8198,
     8199, 8200, 8201, 8202, 8232, 8233, 8239, 8287, 12288}

\* the text with the character c put in after its first p characters
InsertAt(text, p, c) == SubSeq(text, 1, p) \o <<c>> \o SubSeq(text, p + 1, Len(text))

\* the bytes a hex literal denotes: its digits, whitespace left out, pair by pair
HexLiteralBytes(text) ==
    LET digits == SelectSeq(text, LAMBDA c : c \notin WhiteSpaceChars)
    IN [k \in 1 .. (Len(digits) \div 2) |->
           16 * HexCharValue(digits[2 * k - 1]) + HexCharValue(digits[2 * k])]

\* C16: in every state, putting a whitespace character anywhere into the query
\* (also between the two digits of a pair) leaves what it decodes to in Hex mode
\* as it is; after an ExecuteSearch in Hex mode on a hex literal the matches are
\* the occurrences of the bytes the literal denotes, and after one in Ascii mode
\* on an ASCII text they are the occurrences of the text's characters as bytes:
\* so a hex query and an ASCII query for the same bytes record the same matches.
C16_HexIgnoresWhitespace ==
    /\ \A p \in 0 .. Len(search_term), w \in WhitespaceSamples :
           DecodePattern(InsertAt(search_term, p, w), "Hex") =
               DecodePattern(search_term, "Hex")
    /\ (last_msg = "ExecuteSearch" /\ search_mode = "Hex" /\ ~BadHexQuery(search_term)) =>
           /\ StrictlyAscending(search_results)
           /\ Range(search_results) =
                  IF HexLiteralBytes(search_term) = <<>> THEN {}
                  ELSE Occurrences(file_data, HexLiteralBytes(search_term))
    /\ (/\ last_msg = "ExecuteSearch"
        /\ search_mode = "Ascii"
        /\ search_term # <<>>
        /\ \A k \in 1 .. Len(search_term) : search_term[k] < 128) =>
           /\ StrictlyAscending(search_results)
           /\ Range(search_results) = Occurrences(file_data, search_term)

\* C16 witness: the hex query "4 1", a space between the two digits of its one
\* pair, has just been searched in 41 FF 41 and found at 0 and 2, where the
\* ASCII query "A" is found.
C16_Witness ==
    /\ last_msg = "ExecuteSearch"
    /\ search_mode = "Hex"
    /\ search_term = <<52, 32, 49>>
    /\ file_data = <<65, 255, 65>>
    /\ search_results = <<0, 2>>
    /\ Occurrences(file_data, <<65>>) = {0, 2}
    /\ search_status = "Found 2 match(es)."

\* C17: the matches are non-empty exactly under a status "Found N match(es)."
\* (HasResults), and empty under the statuses "" (Idle), "Not found."
\* (NoResults) and "Invalid Hex sequence." (InvalidPattern); matches and status
\* change in no message but ExecuteSearch and FileLoaded, FileLoaded leaving
\* them idle; UpdateSearchTerm changes nothing of the editor but the query text
\* and UpdateSearchMode nothing but the mode.
C17_SearchStateChangesOnlyOnExecuteAndLoad ==
    /\ [](IF search_results # <<>>
          THEN search_status = "Found " \o ToString(Len(search_results)) \o " match(es)."
          ELSE search_status \in {"", "Not found.", "Invalid Hex sequence."})
    /\ [][/\ (last_msg' \notin {"ExecuteSearch", "FileLoaded"} =>
                 /\ search_results' = search_results
                 /\ search_status' = search_status)
          /\ (last_msg' = "FileLoaded" =>
                 search_results' = <<>> /\ search_status' = "")
          /\ (last_msg' = "UpdateSearchTerm" =>
                 <<file_name, file_data, error, scroll_top, container_height,
                   search_mode, search_bytes, search_results, current_match_index,
                   search_status, element_scroll_top>>' =
                 <<file_name, file_data, error, scroll_top, container_height,
                   search_mode, search_bytes, search_results, current_match_index,
                   search_status, element_scroll_top>>)
          /\ (last_msg' = "UpdateSearchMode" =>
                 <<file_name, file_data, error, scroll_top, container_height,
                   search_term, search_bytes, search_results, current_match_index,
                   search_status, element_scroll_top>>' =
                 <<file_name, file_data, error, scroll_top, container_height,
                   search_term, search_bytes, search_results, current_match_index,
                   search_status, element_scroll_top>>)]_vars

\* C17 witness: after a search for "A" found three matches the query text has
\* just been changed to the invalid hex text "4G" in Hex mode, and matches and
\* status are still those of the search.
C17_Witness ==
    /\ last_msg = "UpdateSearchTerm"
    /\ search_term = <<52, 71>>
    /\ search_mode = "Hex"
    /\ search_bytes = <<65>>
    /\ search_results = <<0, 1, 2>>
    /\ search_status = "Found 3 match(es)."

\* C19: in every state every recorded match lies inside the buffer: for each m
\* of search_results, m + len(search_bytes) <= len(file_data); so the range of
\* the current match that view_row highlights ends inside the buffer.
C19_MatchesInsideBuffer ==
    /\ \A k \in 1 .. Len(search_results) :
           search_results[k] + Len(search_bytes) <= Len(file_data)
    /\ (current_match_index # None /\ current_match_index[1] < Len(search_results)) =>
           search_results[current_match_index[1] + 1] + Len(search_bytes)
               <= Len(file_data)

\* C19, the state that refutes it: "AAA" was loaded and searched for "A", then
\* a load failed: the buffer is empty and the three matches and the cursor are
\* still recorded.
C19_MatchesOutliveBuffer ==
    /\ last_msg = "FileLoadError"
    /\ file_data = <<>>
    /\ search_bytes = <<65>>
    /\ search_results = <<0, 1, 2>>
    /\ current_match_index = Some(0)
    /\ search_status = "Found 3 match(es)."

\* C20: in every state the cursor is None exactly when there are no matches,
\* and a cursor Some(i) has i < len(search_results); so no FindNext and no
\* FindPrevious is handled with matches recorded and the cursor None.
C20_CursorIffMatches ==
    /\ [](/\ (current_match_index = None) <=> (search_results = <<>>)
          /\ (current_match_index # None =>
                 current_match_index[1] \in 0 .. Len(search_results) - 1))
    /\ [][last_msg' \in {"FindNext", "FindPrevious"} =>
             ~(search_results # <<>> /\ current_match_index = None)]_vars

\* C20 witness: a FindPrevious has just been handled with two matches recorded
\* and has moved the cursor from the second to the first.
C20_Witness ==
    /\ last_msg = "FindPrevious"
    /\ search_results = <<0, 2>>
    /\ current_match_index = Some(0)
    /\ file_data = <<65, 255, 65>>

====
